---------------------------- MODULE Spec2Model ----------------------------
(***************************************************************************)
(* A model of the SAP ST22 AI gateway: app/llm_client.py (LLMClient and    *)
(* its JSON extraction helper) and app/main.py (the HTTP handlers around   *)
(* it and the analysis store they write).                                  *)
(*                                                                         *)
(* Text is a sequence of one-character strings.  A Python/JSON value is a  *)
(* record [t, s, items]: t is the kind, s the characters of a string, a    *)
(* number's lexeme or a literal, items the members of an object (key k,    *)
(* value v, in insertion order) or the elements of an array (k empty).     *)
(* Python's None is JSON null.                                             *)
(***************************************************************************)
EXTENDS Integers, Sequences, FiniteSets, TLC

\* ------------------------------------------------------------------------
\* Characters: a character is a one-character string, except the double
\* quote, the backslash, the backtick and the line feed, which are written by name
\* ------------------------------------------------------------------------
DQ == "QUOTE"
BS == "BACKSLASH"
NL == "LF"
BT == "BACKTICK"
SP == " "

\* str.strip() and the JSON scanner skip the same whitespace
WS == {SP, NL}
Digits == {"0", "1"}

\* ------------------------------------------------------------------------
\* Python / JSON values
\* ------------------------------------------------------------------------
None == [t |-> "null", s |-> <<>>, items |-> <<>>]
JTrue == [t |-> "bool", s |-> <<"t", "r", "u", "e">>, items |-> <<>>]
JFalse == [t |-> "bool", s |-> <<"f", "a", "l", "s", "e">>, items |-> <<>>]
JNum(ds) == [t |-> "num", s |-> ds, items |-> <<>>]
JStr(cs) == [t |-> "str", s |-> cs, items |-> <<>>]
JArr(vs) == [t |-> "arr", s |-> <<>>,
             items |-> [i \in 1..Len(vs) |-> [k |-> <<>>, v |-> vs[i]]]]
JObj(ms) == [t |-> "obj", s |-> <<>>, items |-> ms]
Member(key, val) == [k |-> key, v |-> val]

\* Python truthiness, as in (not x) and (a or b)
Truthy(x) ==
    CASE x.t = "null" -> FALSE
      [] x.t = "bool" -> x = JTrue
      [] x.t = "num" -> \E i \in 1..Len(x.s) : x.s[i] \in Digits \ {"0"}
      [] x.t = "str" -> Len(x.s) > 0
      [] OTHER -> Len(x.items) > 0

\* dict.get(key, default) on a JSON object (the caller checks x.t = "obj")
RECURSIVE Lookup(_, _, _, _)
Lookup(ms, key, default, i) ==
    IF i = 0 THEN default
    ELSE IF ms[i].k = key THEN ms[i].v
    ELSE Lookup(ms, key, default, i - 1)

DictGet(x, key, default) == Lookup(x.items, key, default, Len(x.items))

\* dict[key] = val: replaces the value of a key already present
DictSet(ms, key, val) ==
    IF \E i \in 1..Len(ms) : ms[i].k = key
    THEN [i \in 1..Len(ms) |-> IF ms[i].k = key THEN Member(key, val) ELSE ms[i]]
    ELSE Append(ms, Member(key, val))

\* ------------------------------------------------------------------------
\* json.loads
\* ------------------------------------------------------------------------
Fail == [ok |-> FALSE, v |-> None, i |-> 0]
Ok(val, next) == [ok |-> TRUE, v |-> val, i |-> next]

At(s, i) == IF i >= 1 /\ i <= Len(s) THEN s[i] ELSE "EOF"

StartsWith(s, i, lit) ==
    /\ i + Len(lit) - 1 <= Len(s)
    /\ \A j \in 1..Len(lit) : s[i + j - 1] = lit[j]

RECURSIVE SkipWS(_, _)
SkipWS(s, i) == IF At(s, i) \in WS THEN SkipWS(s, i + 1) ELSE i

RECURSIVE DigitsEnd(_, _)
DigitsEnd(s, i) == IF At(s, i) \in Digits THEN DigitsEnd(s, i + 1) ELSE i

\* -?(0|[1-9]\d*)([eE][-+]?\d+)? over the characters of the model
ScanNumber(s, i) ==
    LET intEnd == IF s[i] = "0" THEN i + 1 ELSE DigitsEnd(s, i)
        expEnd == IF At(s, intEnd) = "e" /\ At(s, intEnd + 1) \in Digits
                  THEN DigitsEnd(s, intEnd + 1) ELSE intEnd
    IN Ok(JNum(SubSeq(s, i, expEnd - 1)), expEnd)

\* the string after its opening quote: strict mode rejects raw control
\* characters; the escapes are those json.dumps writes
RECURSIVE ScanString(_, _, _)
ScanString(s, i, acc) ==
    LET c == At(s, i) IN
    IF c = "EOF" \/ c = NL THEN Fail
    ELSE IF c = DQ THEN Ok(JStr(acc), i + 1)
    ELSE IF c = BS THEN
        LET e == At(s, i + 1) IN
        IF e = DQ \/ e = BS THEN ScanString(s, i + 2, Append(acc, e))
        ELSE IF e = "n" THEN ScanString(s, i + 2, Append(acc, NL))
        ELSE Fail
    ELSE ScanString(s, i + 1, Append(acc, c))

RECURSIVE ScanOnce(_, _), ScanArray(_, _, _), ScanObject(_, _, _)
ScanOnce(s, i) ==
    LET c == At(s, i) IN
    CASE c = DQ -> ScanString(s, i + 1, <<>>)
      [] c = "{" ->
            LET j == SkipWS(s, i + 1) IN
            IF At(s, j) = "}" THEN Ok(JObj(<<>>), j + 1)
            ELSE ScanObject(s, j, <<>>)
      [] c = "[" ->
            LET j == SkipWS(s, i + 1) IN
            IF At(s, j) = "]" THEN Ok(JArr(<<>>), j + 1)
            ELSE ScanArray(s, j, <<>>)
      [] c \in Digits -> ScanNumber(s, i)
      [] c = "t" /\ StartsWith(s, i, JTrue.s) -> Ok(JTrue, i + 4)
      [] c = "f" /\ StartsWith(s, i, JFalse.s) -> Ok(JFalse, i + 5)
      [] c = "n" /\ StartsWith(s, i, <<"n", "u", "l", "l">>) -> Ok(None, i + 4)
      [] OTHER -> Fail

\* one element at i, then "," and the next element, or "]"
ScanArray(s, i, acc) ==
    LET r == ScanOnce(s, i) IN
    IF ~r.ok THEN Fail
    ELSE LET j == SkipWS(s, r.i)
             vs == Append(acc, Member(<<>>, r.v))
         IN IF At(s, j) = "]" THEN Ok([t |-> "arr", s |-> <<>>, items |-> vs], j + 1)
            ELSE IF At(s, j) = "," THEN ScanArray(s, SkipWS(s, j + 1), vs)
            ELSE Fail

\* one "key": value at i, then "," and the next member, or "}"
ScanObject(s, i, acc) ==
    IF At(s, i) # DQ THEN Fail
    ELSE LET key == ScanString(s, i + 1, <<>>) IN
         IF ~key.ok THEN Fail
         ELSE LET c == SkipWS(s, key.i) IN
              IF At(s, c) # ":" THEN Fail
              ELSE LET r == ScanOnce(s, SkipWS(s, c + 1)) IN
                   IF ~r.ok THEN Fail
                   ELSE LET j == SkipWS(s, r.i)
                            ms == DictSet(acc, key.v.s, r.v)
                        IN IF At(s, j) = "}" THEN Ok(JObj(ms), j + 1)
                           ELSE IF At(s, j) = "," THEN ScanObject(s, SkipWS(s, j + 1), ms)
                           ELSE Fail

\* json.loads(s): a value between optional whitespace and nothing else;
\* ok = FALSE stands for the JSONDecodeError it raises
JsonLoads(s) ==
    LET r == ScanOnce(s, SkipWS(s, 1)) IN
    IF r.ok /\ SkipWS(s, r.i) = Len(s) + 1 THEN r ELSE Fail

\* ------------------------------------------------------------------------
\* json.dumps (default separators), on values whose numbers are integers
\* ------------------------------------------------------------------------
RECURSIVE Escape(_, _)
Escape(cs, i) ==
    IF i > Len(cs) THEN <<>>
    ELSE (CASE cs[i] = DQ -> <<BS, DQ>>
            [] cs[i] = BS -> <<BS, BS>>
            [] cs[i] = NL -> <<BS, "n">>
            [] OTHER -> <<cs[i]>>) \o Escape(cs, i + 1)

Quoted(cs) == <<DQ>> \o Escape(cs, 1) \o <<DQ>>

RECURSIVE JsonDumps(_), DumpItems(_, _, _)
JsonDumps(x) ==
    CASE x.t = "null" -> <<"n", "u", "l", "l">>
      [] x.t = "bool" -> x.s
      [] x.t = "num" -> x.s
      [] x.t = "str" -> Quoted(x.s)
      [] x.t = "arr" -> <<"[">> \o DumpItems(x.items, 1, FALSE) \o <<"]">>
      [] OTHER -> <<"{">> \o DumpItems(x.items, 1, TRUE) \o <<"}">>

DumpItems(ms, i, keyed) ==
    IF i > Len(ms) THEN <<>>
    ELSE (IF i > 1 THEN <<",", SP>> ELSE <<>>)
         \o (IF keyed THEN Quoted(ms[i].k) \o <<":", SP>> ELSE <<>>)
         \o JsonDumps(ms[i].v)
         \o DumpItems(ms, i + 1, keyed)

\* ------------------------------------------------------------------------
\* LLMClient._try_parse_json
\* ------------------------------------------------------------------------
\* str.strip()
RECURSIVE LStrip(_), RStrip(_)
LStrip(s) == IF Len(s) > 0 /\ s[1] \in WS THEN LStrip(Tail(s)) ELSE s
RStrip(s) ==
    IF Len(s) > 0 /\ s[Len(s)] \in WS THEN RStrip(SubSeq(s, 1, Len(s) - 1)) ELSE s
Strip(s) == RStrip(LStrip(s))

\* re.IGNORECASE, for the letters of the language tag
Lower(c) ==
    CASE c = "J" -> "j" [] c = "S" -> "s" [] c = "O" -> "o" [] c = "N" -> "n"
      [] OTHER -> c

\* the length of the match of ```(?:json)?\n at i, 0 when there is none
OpenFenceAt(s, i) ==
    IF ~(At(s, i) = BT /\ At(s, i + 1) = BT /\ At(s, i + 2) = BT) THEN 0
    ELSE IF /\ Lower(At(s, i + 3)) = "j" /\ Lower(At(s, i + 4)) = "s"
            /\ Lower(At(s, i + 5)) = "o" /\ Lower(At(s, i + 6)) = "n"
            /\ At(s, i + 7) = NL
         THEN 8
    ELSE IF At(s, i + 3) = NL THEN 4
    ELSE 0

\* re.sub(r"```(?:json)?\n", "", s, flags=re.IGNORECASE): every match, left to right
RECURSIVE SubOpenFence(_, _)
SubOpenFence(s, i) ==
    IF i > Len(s) THEN <<>>
    ELSE LET n == OpenFenceAt(s, i) IN
         IF n > 0 THEN SubOpenFence(s, i + n)
         ELSE <<s[i]>> \o SubOpenFence(s, i + 1)

\* re.sub(r"\n```$", "", s): $ is the end of the text, or the place before a
\* line feed that ends it
SubCloseFence(s) ==
    LET n == Len(s)
        close == <<NL, BT, BT, BT>>
    IN IF n >= 4 /\ SubSeq(s, n - 3, n) = close THEN SubSeq(s, 1, n - 4)
       ELSE IF n >= 5 /\ SubSeq(s, n - 4, n) = close \o <<NL>>
            THEN SubSeq(s, 1, n - 5) \o <<NL>>
       ELSE s

\* str.find and str.rfind: 0-based, -1 when the character does not occur
Find(s, c) ==
    IF \E i \in 1..Len(s) : s[i] = c
    THEN (CHOOSE i \in 1..Len(s) : s[i] = c /\ \A j \in 1..(i - 1) : s[j] # c) - 1
    ELSE -1
RFind(s, c) ==
    IF \E i \in 1..Len(s) : s[i] = c
    THEN (CHOOSE i \in 1..Len(s) : s[i] = c /\ \A j \in (i + 1)..Len(s) : s[j] # c) - 1
    ELSE -1

\* s[a:b] for 0 <= a <= b
Slice(s, a, b) == SubSeq(s, a + 1, b)

Returned(val) == [exc |-> "", v |-> val]
Raised(name) == [exc |-> name, v |-> None]

\* lines 145-147
StripFences(text) == SubCloseFence(SubOpenFence(Strip(text), 1))

\* lines 149-160 with the whole text tried before the braces' substring
ParseStripped_WholeFirst(s) ==
    LET first == Find(s, "{")
        last == RFind(s, "}")
        sub == IF first # -1 /\ last # -1 /\ last > first
               THEN JsonLoads(Slice(s, first, last + 1)) ELSE Fail
        whole == JsonLoads(s)
    IN IF whole.ok THEN whole.v
       ELSE IF sub.ok THEN sub.v
       ELSE None

\* lines 149-160 with the slice s[first:last], which drops the closing brace
ParseStripped_ShortSlice(s) ==
    LET first == Find(s, "{")
        last == RFind(s, "}")
        sub == IF first # -1 /\ last # -1 /\ last > first
               THEN JsonLoads(Slice(s, first, last)) ELSE Fail
        whole == JsonLoads(s)
    IN IF sub.ok THEN sub.v
       ELSE IF whole.ok THEN whole.v
       ELSE None

\* lines 149-160: the braces' substring first, then the whole text
ParseStripped(s) ==
    LET first == Find(s, "{")
        last == RFind(s, "}")
        sub == IF first # -1 /\ last # -1 /\ last > first
               THEN JsonLoads(Slice(s, first, last + 1)) ELSE Fail
        whole == JsonLoads(s)
    IN IF sub.ok THEN sub.v
       ELSE IF whole.ok THEN whole.v
       ELSE None

_try_parse_json(text) ==
    IF ~Truthy(text) THEN Returned(None)
    ELSE IF text.t # "str" THEN Raised("AttributeError")
    ELSE Returned(ParseStripped(StripFences(text.s)))

\* ------------------------------------------------------------------------
\* State
\* ------------------------------------------------------------------------
VARIABLES
    env,         \* os.environ of the process, read once by LLMClient.__init__
    startup,     \* "ok", or the exception that ended the construction
    llm_client,  \* the fields of the LLMClient built at import (main.py:33)
    req,         \* per request slot: the handler's position and locals, the
                 \* requests analyze has sent (net) and the answers it got
    store,       \* the rows of the analysis store (main.py:31)
    lastSaved,   \* history: per record id, the result handed to the latest save
    ptext,       \* the argument of a direct call of _try_parse_json
    pout         \* what that call returned, once it has

vars == <<env, startup, llm_client, req, store, lastSaved, ptext, pout>>

Unset == "<unset>"
Falsy(x) == x \in {Unset, ""}

\* ------------------------------------------------------------------------
\* LLMClient.__init__
\* ------------------------------------------------------------------------
\* str.lower() on the provider names the model draws
LowerName(x) ==
    CASE x = "LOCAL" -> "local"
      [] x = "Ollama" -> "ollama"
      [] x = "SAP_AICORE" -> "sap_aicore"
      [] OTHER -> x

\* os.environ.get(name, default)
EnvGet(e, name, default) == IF e[name] = Unset THEN default ELSE e[name]

\* int(os.environ.get("LLM_MAX_TOKENS", "800")) raises ValueError on text
\* that is no integer literal
IntLiterals == {"800", "100"}
StartupOf(e) ==
    IF EnvGet(e, "LLM_MAX_TOKENS", "800") \in IntLiterals THEN "ok" ELSE "ValueError"

NotBuilt ==
    [provider |-> Unset, token_url |-> Unset, client_id |-> Unset,
     client_secret |-> Unset, inference_url |-> Unset, local_url |-> Unset,
     max_tokens |-> Unset]

__init__(e) ==
    IF StartupOf(e) # "ok" THEN NotBuilt
    ELSE [provider |-> LowerName(EnvGet(e, "LLM_PROVIDER", "sap_aicore")),
          token_url |-> e.AI_CORE_TOKEN_URL,
          client_id |-> e.AI_CORE_CLIENT_ID,
          client_secret |-> e.AI_CORE_CLIENT_SECRET,
          inference_url |-> e.AI_CORE_INFERENCE_URL,
          local_url |-> e.LOCAL_LLM_URL,
          max_tokens |-> EnvGet(e, "LLM_MAX_TOKENS", "800")]

\* ------------------------------------------------------------------------
\* LLMClient.analyze and the two provider calls
\* ------------------------------------------------------------------------
\* what analyze hands back: a result dict, or the LLMError it raises.  cls
\* names the raise statement: "config" (lines 56, 77, 125), "auth" (line 73),
\* "provider" (lines 118, 136).  msg is the text of the error: the fixed
\* message of lines 56 (up to the provider name it ends with), 73, 77 and
\* 125, or str(e) of the cause at lines 118 and 136, for which the name of
\* the cause's class stands
Result(text, parsed, raw) ==
    [exc |-> "", msg |-> "", cls |-> "", text |-> text, json |-> parsed, raw |-> raw]
LLMError(msg, cls) ==
    [exc |-> "LLMError", msg |-> msg, cls |-> cls,
     text |-> None, json |-> None, raw |-> None]
Pending ==
    [exc |-> "", msg |-> "", cls |-> "pending",
     text |-> None, json |-> None, raw |-> None]

LocalNames == {"local", "ollama", "vllm"}

\* analyze with the local call as its else branch
Dispatch_ElseLocal(provider) ==
    IF provider = "sap_aicore" THEN "sap_aicore" ELSE "local"

\* analyze: the method the provider value selects
Dispatch(provider) ==
    IF provider = "sap_aicore" THEN "sap_aicore"
    ELSE IF provider \in LocalNames THEN "local"
    ELSE "unknown"

\* the check of line 76 without the inference URL
SapConfigured_NoInferenceUrl(c) ==
    ~Falsy(c.token_url) /\ ~Falsy(c.client_id) /\ ~Falsy(c.client_secret)

\* _call_sap_aicore, line 76
SapConfigured(c) ==
    ~Falsy(c.token_url) /\ ~Falsy(c.client_id)
    /\ ~Falsy(c.client_secret) /\ ~Falsy(c.inference_url)

\* _call_local, line 124
LocalConfigured(c) == ~Falsy(c.local_url)

\* an HTTP exchange as requests.post sees it: err is the exception of the
\* transport (a refused connection, the timeout), or "" with a status and
\* a body; json is FALSE when the body is no JSON text
Response(err, status, isJson, body) ==
    [err |-> err, status |-> status, json |-> isJson, body |-> body]

\* requests.post, raise_for_status and resp.json(): the parsed body, or the
\* exception raised on the way
Received(resp) ==
    IF resp.err # "" THEN Raised(resp.err)
    ELSE IF resp.status >= 400 THEN Raised("HTTPError")
    ELSE IF ~resp.json THEN Raised("JSONDecodeError")
    ELSE Returned(resp.body)

\* x[key] on a parsed body
Subscript(x, key) ==
    IF x.t # "obj" THEN Raised("TypeError")
    ELSE IF \E i \in 1..Len(x.items) : x.items[i].k = key
         THEN Returned(DictGet(x, key, None))
    ELSE Raised("KeyError")

\* x[0]
First(x) ==
    CASE x.t = "arr" ->
            IF Len(x.items) = 0 THEN Raised("IndexError") ELSE Returned(x.items[1].v)
      [] x.t = "str" ->
            IF Len(x.s) = 0 THEN Raised("IndexError") ELSE Returned(JStr(<<x.s[1]>>))
      [] x.t = "obj" -> Raised("KeyError")
      [] OTHER -> Raised("TypeError")

\* x.get(key, default): only a dict has the method
Get(x, key, default) ==
    IF x.t # "obj" THEN Raised("AttributeError")
    ELSE Returned(DictGet(x, key, default))

K_access_token == <<"a", "c", "c", "e", "s", "s", "_", "t", "o", "k", "e", "n">>
K_choices == <<"c", "h", "o", "i", "c", "e", "s">>
K_message == <<"m", "e", "s", "s", "a", "g", "e">>
K_content == <<"c", "o", "n", "t", "e", "n", "t">>
K_result == <<"r", "e", "s", "u", "l", "t">>
K_text == <<"t", "e", "x", "t">>
K_output == <<"o", "u", "t", "p", "u", "t">>

\* _get_access_token: the token, or the exception caught at line 71
AccessToken(resp) ==
    LET r == Received(resp) IN
    IF r.exc # "" THEN r ELSE Subscript(r.v, K_access_token)

\* _call_sap_aicore, lines 104-118, on the inference response
SapResult(resp) ==
    LET r == Received(resp) IN
    IF r.exc # "" THEN LLMError(r.exc, "provider")
    ELSE
    LET raw == r.v
        choices == Get(raw, K_choices, JArr(<<JObj(<<>>)>>))
        choice == IF choices.exc # "" THEN choices ELSE First(choices.v)
        message == IF choice.exc # "" THEN choice
                   ELSE Get(choice.v, K_message, JObj(<<>>))
        content == IF message.exc # "" THEN message
                   ELSE Get(message.v, K_content, JStr(<<>>))
        parsed == IF content.exc # "" THEN content ELSE _try_parse_json(content.v)
    IN IF parsed.exc # "" THEN LLMError(parsed.exc, "provider")
       ELSE Result(content.v, parsed.v, raw)

\* a or b
Or(a, b) == IF Truthy(a) THEN a ELSE b

\* _call_local, lines 129-136, on the inference response
LocalResult(resp) ==
    LET r == Received(resp) IN
    IF r.exc # "" THEN LLMError(r.exc, "provider")
    ELSE
    LET j == r.v IN
    IF j.t # "obj" THEN LLMError("AttributeError", "provider")
    ELSE
    LET text == Or(DictGet(j, K_result, None),
                   Or(DictGet(j, K_text, None),
                      Or(DictGet(j, K_output, None), JStr(JsonDumps(j)))))
        parsed == _try_parse_json(text)
    IN IF parsed.exc # "" THEN LLMError(parsed.exc, "provider")
       ELSE Result(text, parsed.v, j)

\* ------------------------------------------------------------------------
\* The analysis store (app/storage.py): a table of rows keyed by record id
\* ------------------------------------------------------------------------
NoRecord == [record_id |-> Unset, input_payload |-> Unset, analysis_result |-> Pending]

Row(id, payload, result) ==
    [record_id |-> id, input_payload |-> payload, analysis_result |-> result]

\* a save that inserts without replacing
save_analysis_Insert(rows, id, payload, result) ==
    rows \cup {Row(id, payload, result)}

\* save: writes or replaces the record of the id
save_analysis(rows, id, payload, result) ==
    {row \in rows : row.record_id # id} \cup {Row(id, payload, result)}

\* get: the record of the id, or null
get_analysis(rows, id) ==
    IF \E row \in rows : row.record_id = id
    THEN CHOOSE row \in rows : row.record_id = id
    ELSE NoRecord

\* ------------------------------------------------------------------------
\* The handlers of app/main.py.  A handler runs in steps: up to each network
\* request that analyze sends, then on its response, then the save; the
\* executor runs the steps of different requests in any order.
\* ------------------------------------------------------------------------
PredictSlots == {"p1"}
DumpSlots == {"a1", "a2"}
Slots == PredictSlots \cup DumpSlots
DumpIds == {"D1", "D2"}

Idle ==
    [pc |-> "idle", dump_id |-> Unset, net |-> <<>>, answers |-> <<>>,
     variant |-> "", out |-> Pending, status |-> 0, saves |-> 0]

Call(name, url) == [call |-> name, url |-> url]

\* analyze_dump going on to the save whatever analyze did
AfterAnalyze_NoExcept(slot, isDump, out) ==
    IF isDump THEN [slot EXCEPT !.pc = "persist", !.out = out]
    ELSE IF out.exc # "" THEN [slot EXCEPT !.pc = "done", !.out = out, !.status = 500]
    ELSE [slot EXCEPT !.pc = "done", !.out = out, !.status = 200]

\* predict lines 64-71 and analyze_dump lines 90-100: what the handler does
\* with analyze's outcome
AfterAnalyze(slot, isDump, out) ==
    IF out.exc # "" THEN [slot EXCEPT !.pc = "done", !.out = out, !.status = 500]
    ELSE IF isDump THEN [slot EXCEPT !.pc = "persist", !.out = out]
    ELSE [slot EXCEPT !.pc = "done", !.out = out, !.status = 200]

\* analyze up to its first network request (lines 50-56, 76-79, 124-128)
BeginAnalyze(slot, isDump, c) ==
    LET variant == Dispatch(c.provider)
        entered == [slot EXCEPT !.variant = variant]
    IN CASE variant = "sap_aicore" ->
              IF ~SapConfigured(c)
              THEN AfterAnalyze(entered, isDump,
                                LLMError("SAP AI Core configuration missing", "config"))
              ELSE [entered EXCEPT !.pc = "token",
                                   !.net = <<Call("token", c.token_url)>>]
         [] variant = "local" ->
              IF ~LocalConfigured(c)
              THEN AfterAnalyze(entered, isDump,
                                LLMError("LOCAL_LLM_URL not set", "config"))
              ELSE [entered EXCEPT !.pc = "infer",
                                   !.net = <<Call("inference", c.local_url)>>]
         [] OTHER ->
              AfterAnalyze(entered, isDump, LLMError("Unknown LLM_PROVIDER", "config"))

\* line 79 with the failure of the exchange swallowed
AfterToken_NoRaise(slot, isDump, c, resp) ==
    [slot EXCEPT !.pc = "infer",
                 !.net = Append(@, Call("inference", c.inference_url))]

\* line 73 raising the cause's text, as lines 118 and 136 do
AfterToken_CauseText(slot, isDump, c, resp) ==
    IF AccessToken(resp).exc # ""
    THEN AfterAnalyze(slot, isDump, LLMError(AccessToken(resp).exc, "auth"))
    ELSE [slot EXCEPT !.pc = "infer",
                      !.net = Append(@, Call("inference", c.inference_url))]

\* _call_sap_aicore line 79 on: the token exchange has answered
AfterToken(slot, isDump, c, resp) ==
    IF AccessToken(resp).exc # ""
    THEN AfterAnalyze(slot, isDump,
                      LLMError("SAP AI Core authentication failed", "auth"))
    ELSE [slot EXCEPT !.pc = "infer",
                      !.net = Append(@, Call("inference", c.inference_url))]

\* the inference call has answered
AfterInference(slot, isDump, resp) ==
    AfterAnalyze(slot, isDump,
                 IF slot.variant = "sap_aicore" THEN SapResult(resp)
                 ELSE LocalResult(resp))

Rejected(slot) == [slot EXCEPT !.pc = "done", !.status = 400]

\* POST /v1/predict, lines 53-66: a body that is no JSON and a body without
\* a prompt are answered 400; on a JSON body that is no object body.get raises
\* outside the try, which the framework answers 500
Predict(r, body, prompt) ==
    /\ startup = "ok"
    /\ req[r].pc = "idle"
    /\ req' = [req EXCEPT ![r] =
                  IF body = "invalid" THEN Rejected(@)
                  ELSE IF body = "array" THEN [@ EXCEPT !.pc = "done", !.status = 500]
                  ELSE IF Falsy(prompt) THEN Rejected(@)
                  ELSE BeginAnalyze(@, FALSE, llm_client)]
    /\ UNCHANGED <<env, startup, llm_client, store, lastSaved, ptext, pout>>

\* POST /api/dumps, lines 82-94
AnalyzeDump(r, dump_id) ==
    /\ startup = "ok"
    /\ req[r].pc = "idle"
    /\ req' = [req EXCEPT ![r] =
                  IF Falsy(dump_id) THEN Rejected(@)
                  ELSE BeginAnalyze([@ EXCEPT !.dump_id = dump_id], TRUE, llm_client)]
    /\ UNCHANGED <<env, startup, llm_client, store, lastSaved, ptext, pout>>

TokenResponse(r, resp) ==
    /\ req[r].pc = "token"
    /\ req' = [req EXCEPT ![r] =
                  AfterToken([@ EXCEPT !.answers = Append(@, resp)],
                             r \in DumpSlots, llm_client, resp)]
    /\ UNCHANGED <<env, startup, llm_client, store, lastSaved, ptext, pout>>

InferenceResponse(r, resp) ==
    /\ req[r].pc = "infer"
    /\ req' = [req EXCEPT ![r] =
                  AfterInference([@ EXCEPT !.answers = Append(@, resp)],
                                 r \in DumpSlots, resp)]
    /\ UNCHANGED <<env, startup, llm_client, store, lastSaved, ptext, pout>>

\* what analyze_dump hands to the store (line 108)
Stored(out) == [out EXCEPT !.cls = ""]

\* analyze_dump, lines 102-118: the save, then the 201 response
Persist(r) ==
    /\ req[r].pc = "persist"
    /\ store' = save_analysis(store, req[r].dump_id, req[r].dump_id, Stored(req[r].out))
    /\ lastSaved' = [lastSaved EXCEPT ![req[r].dump_id] = Stored(req[r].out)]
    /\ req' = [req EXCEPT ![r] = [@ EXCEPT !.pc = "done", !.status = 201,
                                           !.saves = @ + 1]]
    /\ UNCHANGED <<env, startup, llm_client, ptext, pout>>

\* the response is sent and the slot takes the next request
Respond(r) ==
    /\ req[r].pc = "done"
    /\ req' = [req EXCEPT ![r] = Idle]
    /\ UNCHANGED <<env, startup, llm_client, store, lastSaved, ptext, pout>>

\* GET /api/dumps/{dump_id}, lines 121-126
get_dump(id) ==
    LET rec == get_analysis(store, id) IN
    IF rec = NoRecord THEN [status |-> 404, body |-> NoRecord]
    ELSE [status |-> 200, body |-> rec]

\* ------------------------------------------------------------------------
\* Inputs
\* ------------------------------------------------------------------------
RawProviders == {Unset, "sap_aicore", "LOCAL", "Ollama", "vllm", "openai", ""}

Envs ==
    [LLM_PROVIDER : RawProviders,
     AI_CORE_TOKEN_URL : {Unset, "", "tok.example"},
     AI_CORE_CLIENT_ID : {Unset, "id"},
     AI_CORE_CLIENT_SECRET : {Unset, "secret"},
     AI_CORE_INFERENCE_URL : {Unset, "inf.example"},
     LOCAL_LLM_URL : {Unset, "", "local.example"},
     LLM_MAX_TOKENS : {Unset, "100", "abc"}]

\* the environments of the deployments the dump traffic is explored under
DumpEnvs ==
    {e \in Envs :
        /\ e.LLM_MAX_TOKENS = Unset
        /\ e.AI_CORE_TOKEN_URL = "tok.example" /\ e.AI_CORE_CLIENT_ID = "id"
        /\ e.AI_CORE_CLIENT_SECRET = "secret"
        /\ e.AI_CORE_INFERENCE_URL = "inf.example"
        /\ \/ e.LLM_PROVIDER = Unset /\ e.LOCAL_LLM_URL = Unset
           \/ e.LLM_PROVIDER = "LOCAL" /\ e.LOCAL_LLM_URL \in {Unset, "local.example"}}

RequestBodies == {"invalid", "array", "object"}
Prompts == {Unset, "", "prompt"}

S_hi == <<"h", "i">>
S_braces == <<"{", "}">>
S_array == <<"[", "1", "]">>

Obj1(k, v) == JObj(<<Member(k, v)>>)
Obj2(k1, v1, k2, v2) == JObj(<<Member(k1, v1), Member(k2, v2)>>)

Failures ==
    {Response("ConnectionError", 0, FALSE, None),
     Response("Timeout", 0, FALSE, None),
     Response("", 500, FALSE, None),
     Response("", 200, FALSE, None)}

TokenBodies ==
    {Obj1(K_access_token, JStr(<<"t">>)), JObj(<<>>), JArr(<<>>)}

Chat(content) == Obj1(K_choices, JArr(<<Obj1(K_message, Obj1(K_content, content))>>))

SapBodies ==
    {Chat(JStr(S_braces)), Chat(JStr(S_hi)), Chat(JStr(S_array)),
     JObj(<<>>),
     Obj1(K_choices, JArr(<<>>)),
     Obj1(K_choices, JArr(<<JObj(<<>>)>>)),
     Obj1(K_choices, JArr(<<Obj1(K_message, None)>>)),
     Obj1(K_choices, JArr(<<Obj1(K_message, JObj(<<>>))>>)),
     JArr(<<>>)}

LocalBodies ==
    {Obj1(K_result, JStr(S_hi)),
     Obj2(K_result, JStr(<<>>), K_text, JStr(S_braces)),
     Obj2(K_output, JStr(S_array), K_text, None),
     JObj(<<>>),
     Obj1(K_result, JNum(<<"1">>)),
     Obj1(K_result, JNum(<<"0">>)),
     JArr(<<JStr(S_hi)>>)}

Responses(bodies) == Failures \cup {Response("", 200, TRUE, b) : b \in bodies}

\* the answers the dump traffic is explored under: one transport failure, and
\* per provider one body that analyze accepts and one it fails on
DumpResponses(bodies) ==
    {Response("Timeout", 0, FALSE, None)} \cup {Response("", 200, TRUE, b) : b \in bodies}

DumpTokenBodies == {Obj1(K_access_token, JStr(<<"t">>))}

DumpBodies ==
    {Chat(JStr(S_braces)), Obj1(K_choices, JArr(<<>>)),
     Obj1(K_result, JStr(S_hi)), Obj1(K_result, JNum(<<"1">>))}

\* ------------------------------------------------------------------------
\* Specifications
\* ------------------------------------------------------------------------
NotCalled == [exc |-> "pending", v |-> None]

InitFrom(envs) ==
    /\ env \in envs
    /\ startup = StartupOf(env)
    /\ llm_client = __init__(env)
    /\ req = [r \in Slots |-> Idle]
    /\ store = {}
    /\ lastSaved = [id \in DumpIds |-> Pending]
    /\ ptext = None
    /\ pout = NotCalled

\* the client under predict traffic, in every environment
Init == InitFrom(Envs)

Next ==
    \/ \E r \in PredictSlots, body \in RequestBodies, prompt \in Prompts :
          Predict(r, body, prompt)
    \/ \E r \in PredictSlots, resp \in Responses(TokenBodies) : TokenResponse(r, resp)
    \/ \E r \in PredictSlots, resp \in Responses(SapBodies \cup LocalBodies) :
          InferenceResponse(r, resp)
    \/ \E r \in PredictSlots : Respond(r)

Spec == Init /\ [][Next]_vars

\* the gateway under concurrent dump submissions
InitDumps == InitFrom(DumpEnvs)

NextDumps ==
    \/ \E r \in DumpSlots, id \in DumpIds \cup {Unset, ""} : AnalyzeDump(r, id)
    \/ \E r \in DumpSlots, resp \in DumpResponses(DumpTokenBodies) :
          TokenResponse(r, resp)
    \/ \E r \in DumpSlots, resp \in DumpResponses(DumpBodies) :
          InferenceResponse(r, resp)
    \/ \E r \in DumpSlots : Persist(r)
    \/ \E r \in DumpSlots : Respond(r)

SpecDumps == InitDumps /\ [][NextDumps]_vars

\* a direct call of _try_parse_json: the text is a concatenation of at most
\* MaxFrags fragments of model output, or absent
MaxFrags == 4

Fragments ==
    {<<"{">>, <<"}">>, <<"[">>, <<"]">>, <<DQ>>, <<"1">>, <<SP>>,
     <<DQ, "a", DQ, ":", "1">>,
     <<"t", "r", "u", "e">>,
     <<BT, BT, BT, "J", "s", "o", "n", NL>>,
     <<NL, BT, BT, BT>>}

RECURSIVE Texts(_)
Texts(n) ==
    IF n = 0 THEN {<<>>}
    ELSE LET shorter == Texts(n - 1)
         IN shorter \cup {t \o f : t \in shorter, f \in Fragments}

ParseInputs == {None} \cup {JStr(t) : t \in Texts(MaxFrags)}

InitParse ==
    /\ env = [LLM_PROVIDER |-> Unset, AI_CORE_TOKEN_URL |-> Unset,
              AI_CORE_CLIENT_ID |-> Unset, AI_CORE_CLIENT_SECRET |-> Unset,
              AI_CORE_INFERENCE_URL |-> Unset, LOCAL_LLM_URL |-> Unset,
              LLM_MAX_TOKENS |-> Unset]
    /\ startup = StartupOf(env)
    /\ llm_client = __init__(env)
    /\ req = [r \in Slots |-> Idle]
    /\ store = {}
    /\ lastSaved = [id \in DumpIds |-> Pending]
    /\ ptext \in ParseInputs
    /\ pout = NotCalled

ParseCall ==
    /\ pout = NotCalled
    /\ pout' = _try_parse_json(ptext)
    /\ UNCHANGED <<env, startup, llm_client, req, store, lastSaved, ptext>>

NextParse == ParseCall

SpecParse == InitParse /\ [][NextParse]_vars

\* ------------------------------------------------------------------------
\* Properties
\* ------------------------------------------------------------------------
\* analyze has been called in slot r (a request rejected before the call
\* never enters it)
Invoked(r) == req[r].variant # ""
\* ... and has returned or raised
Finished(r) == Invoked(r) /\ req[r].pc \in {"persist", "done"}
Failed(r) == Finished(r) /\ req[r].out.exc # ""

Absent(name) == env[name] \in {Unset, ""}
SapParams ==
    {"AI_CORE_TOKEN_URL", "AI_CORE_CLIENT_ID", "AI_CORE_CLIENT_SECRET",
     "AI_CORE_INFERENCE_URL"}
IsSap == startup = "ok" /\ llm_client.provider = "sap_aicore"
IsLocal == startup = "ok" /\ llm_client.provider \in LocalNames
SapReady == IsSap /\ \A name \in SapParams : ~Absent(name)

HasKey(x, key) == x.t = "obj" /\ \E i \in 1..Len(x.items) : x.items[i].k = key
Success(resp) == resp.err = "" /\ resp.status < 400 /\ resp.json
TokenGranted(resp) == Success(resp) /\ HasKey(resp.body, K_access_token)

TokenCall == Call("token", env.AI_CORE_TOKEN_URL)
InferenceCall == Call("inference", env.AI_CORE_INFERENCE_URL)
LocalCall == Call("inference", env.LOCAL_LLM_URL)

\* C1 as stated: with the remote-managed provider fully configured, every
\* finished call of analyze has sent exactly one token request and then
\* exactly one inference request
C1_TokenThenInference ==
    SapReady => \A r \in Slots :
        Finished(r) => req[r].net = <<TokenCall, InferenceCall>>

\* C1 amended: every call of analyze sends exactly one token request; exactly
\* one inference request follows it when the exchange yields a token, and none
\* when the exchange fails; nothing else is sent
C1_TokenThenInferenceIfGranted ==
    SapReady => \A r \in Slots :
        /\ req[r].pc = "token" => req[r].net = <<TokenCall>>
        /\ req[r].pc = "infer" => req[r].net = <<TokenCall, InferenceCall>>
        /\ Finished(r) =>
              req[r].net = IF TokenGranted(req[r].answers[1])
                           THEN <<TokenCall, InferenceCall>>
                           ELSE <<TokenCall>>

C1_Witness ==
    SapReady /\ \E r \in Slots :
        /\ Finished(r)
        /\ req[r].net = <<TokenCall, InferenceCall>>
        /\ Len(req[r].answers) = 2

\* C2: when a required connection parameter of the active provider is absent,
\* every call of analyze has failed with the configuration error and has sent
\* no request
ConfigMessages ==
    [sap_aicore |-> "SAP AI Core configuration missing",
     local |-> "LOCAL_LLM_URL not set",
     unknown |-> "Unknown LLM_PROVIDER"]

FailedFast(r, msg) ==
    /\ req[r].pc = "done"
    /\ req[r].status = 500
    /\ req[r].out.exc = "LLMError"
    /\ req[r].out.msg = msg
    /\ req[r].net = <<>>
    /\ req[r].answers = <<>>

C2_FailFast ==
    \A r \in Slots : Invoked(r) =>
        /\ (IsSap /\ \E name \in SapParams : Absent(name))
              => FailedFast(r, ConfigMessages.sap_aicore)
        /\ (IsLocal /\ Absent("LOCAL_LLM_URL"))
              => FailedFast(r, ConfigMessages.local)

C2_Witness ==
    /\ IsSap
    /\ Absent("AI_CORE_INFERENCE_URL")
    /\ \A name \in SapParams \ {"AI_CORE_INFERENCE_URL"} : ~Absent(name)
    /\ \E r \in Slots : Invoked(r) /\ FailedFast(r, ConfigMessages.sap_aicore)

\* C8: the construction never fails because of the provider value; a value
\* of the set makes every call of analyze run that provider's call and send
\* its requests to that provider only; any other value makes every call fail
\* with the configuration error without a request
C8_ProviderSelection ==
    /\ startup # "ok" => env.LLM_MAX_TOKENS \notin ({Unset} \cup IntLiterals)
    /\ \A r \in Slots : Invoked(r) =>
          /\ IsSap =>
                /\ req[r].variant = "sap_aicore"
                /\ \A i \in 1..Len(req[r].net) :
                      req[r].net[i] \in {TokenCall, InferenceCall}
          /\ IsLocal =>
                /\ req[r].variant = "local"
                /\ \A i \in 1..Len(req[r].net) : req[r].net[i] = LocalCall
          /\ ~IsSap /\ ~IsLocal => FailedFast(r, ConfigMessages.unknown)

C8_Witness ==
    /\ env.LLM_PROVIDER = "openai"
    /\ ~Absent("LOCAL_LLM_URL")
    /\ \E r \in Slots : Invoked(r) /\ FailedFast(r, ConfigMessages.unknown)

\* C5 as stated: with the local provider, every inference answer that has a
\* success status and a JSON body makes analyze return a result whose text is
\* a string, the first populated of result, text, output or else the
\* serialization of the body
C5_ExpectedText(body) ==
    LET cand(key) == IF HasKey(body, key) THEN DictGet(body, key, None) ELSE None
    IN IF Truthy(cand(K_result)) THEN cand(K_result)
       ELSE IF Truthy(cand(K_text)) THEN cand(K_text)
       ELSE IF Truthy(cand(K_output)) THEN cand(K_output)
       ELSE JStr(JsonDumps(body))

C5_LocalTextIsString ==
    \A r \in Slots :
        (IsLocal /\ Finished(r) /\ Len(req[r].answers) = 1
                 /\ Success(req[r].answers[1])) =>
            /\ req[r].out.exc = ""
            /\ req[r].out.text.t = "str"
            /\ req[r].out.text = C5_ExpectedText(req[r].answers[1].body)

\* C6 as stated: with the remote-managed provider, every inference answer
\* with a success status and a JSON object body in which
\* choices[0].message.content is absent (choices missing or empty, the first
\* choice without message, message null, content missing) makes analyze
\* return the empty text and a null structured value
C6_ContentAbsent(body) ==
    /\ body.t = "obj"
    /\ \/ ~HasKey(body, K_choices)
       \/ LET choices == DictGet(body, K_choices, None) IN
          /\ choices.t = "arr"
          /\ \/ Len(choices.items) = 0
             \/ LET choice == choices.items[1].v IN
                /\ choice.t = "obj"
                /\ \/ ~HasKey(choice, K_message)
                   \/ DictGet(choice, K_message, None) = None
                   \/ LET message == DictGet(choice, K_message, None) IN
                      message.t = "obj" /\ ~HasKey(message, K_content)

C6_AbsentContentDegrades ==
    \A r \in Slots :
        (IsSap /\ Finished(r) /\ Len(req[r].answers) = 2
               /\ Success(req[r].answers[2])
               /\ C6_ContentAbsent(req[r].answers[2].body)) =>
            /\ req[r].out.exc = ""
            /\ req[r].out.text = JStr(<<>>)
            /\ req[r].out.json = None

Causes ==
    {"ConnectionError", "Timeout", "HTTPError", "JSONDecodeError",
     "AttributeError", "IndexError", "KeyError", "TypeError"}

AuthMessage == "SAP AI Core authentication failed"

C7_LatestWins ==
    \A id \in DumpIds :
        /\ Cardinality({row \in store : row.record_id = id}) <= 1
        /\ lastSaved[id] = Pending =>
              get_analysis(store, id) = NoRecord /\ get_dump(id).status = 404
        /\ lastSaved[id] # Pending =>
              /\ get_dump(id).status = 200
              /\ get_dump(id).body.record_id = id
              /\ get_dump(id).body.analysis_result = lastSaved[id]

C7_Witness ==
    \E id \in DumpIds, r \in DumpSlots :
        /\ req[r].pc = "done" /\ req[r].status = 201 /\ req[r].dump_id = id
        /\ lastSaved[id] # Pending
        /\ lastSaved[id] # Stored(req[r].out)
        /\ get_dump(id).body.analysis_result = lastSaved[id]

\* C10: the store changes only in the save of a request whose analyze has
\* returned, and only in the record of the id that request submitted; a
\* request answered 201 has saved exactly once, and a request rejected for a
\* missing id or failed by analyze has not saved
RowsExcept(rows, id) == {row \in rows : row.record_id # id}

C10_Step ==
    /\ store' # store =>
          \E r \in DumpSlots :
              /\ req[r].pc = "persist" /\ req[r].out.exc = ""
              /\ req'[r].pc = "done" /\ req'[r].status = 201
              /\ req[r].dump_id \in DumpIds
              /\ RowsExcept(store', req[r].dump_id) = RowsExcept(store, req[r].dump_id)
              /\ get_analysis(store', req[r].dump_id).analysis_result = Stored(req[r].out)
    /\ \A r \in DumpSlots :
          /\ req'[r].pc \in {"token", "infer", "persist"} => req'[r].saves = 0
          /\ req'[r].pc = "persist" => req'[r].out.exc = ""
          /\ req'[r].pc = "done" =>
                req'[r].saves = IF req'[r].status = 201 THEN 1 ELSE 0
          /\ (req[r].pc = "persist" /\ req'[r] # req[r]) =>
                req'[r].pc = "done" /\ req'[r].status = 201 /\ store' # {}
          /\ (req'[r].pc = "done" /\ req'[r].status # 201 /\ req'[r] # req[r]) =>
                store' = store

C10_SaveOnlyAfterAnalyze == [][C10_Step]_vars

C10_Witness ==
    \E r1, r2 \in DumpSlots :
        /\ req[r1].pc = "done" /\ req[r1].status = 201 /\ req[r1].saves = 1
        /\ req[r2].pc = "done" /\ req[r2].status = 500 /\ req[r2].saves = 0
        /\ req[r2].dump_id \in DumpIds
        /\ get_analysis(store, req[r2].dump_id) = NoRecord
        /\ get_analysis(store, req[r1].dump_id).analysis_result = Stored(req[r1].out)

\* the substrings of s that run from a "{" with none before it to a "}" with
\* none after it: one at most
BraceSubs(s) ==
    {SubSeq(s, i, j) : <<i, j>> \in
        {p \in (1..Len(s)) \X (1..Len(s)) :
            /\ p[1] < p[2]
            /\ s[p[1]] = "{" /\ \A k \in 1..(p[1] - 1) : s[k] # "{"
            /\ s[p[2]] = "}" /\ \A k \in (p[2] + 1)..Len(s) : s[k] # "}"}}

BraceValues(s) == {JsonLoads(b).v : b \in {x \in BraceSubs(s) : JsonLoads(x).ok}}

Called == pout # NotCalled
Stripped == StripFences(ptext.s)

\* C4: parse never raises; it returns null for an empty or absent text, else
\* the JSON value of the stripped text's substring from its first "{" to its
\* last "}" when that is valid JSON, else the JSON value of the whole
\* stripped text when that is valid JSON, else null
C4_ParseOrder ==
    Called =>
        /\ pout.exc = ""
        /\ (ptext = None \/ ptext = JStr(<<>>)) => pout.v = None
        /\ (ptext # None /\ ptext # JStr(<<>>)) =>
              IF BraceValues(Stripped) # {} THEN pout.v \in BraceValues(Stripped)
              ELSE IF JsonLoads(Stripped).ok THEN pout.v = JsonLoads(Stripped).v
              ELSE pout.v = None

\* the whole text is a JSON array, and the object inside it is what comes back
C4_Witness ==
    /\ Called
    /\ ptext = JStr(<<"[", "{", "}", "]">>)
    /\ JsonLoads(Stripped).ok /\ JsonLoads(Stripped).v.t = "arr"
    /\ pout.v = JObj(<<>>)

\* C9 as stated: parse returns null or a mapping, never an array, a number, a
\* string or a boolean
C9_NullOrMapping == Called => pout.v.t \in {"null", "obj"}

\* C9 amended: parse returns null, a mapping, or another JSON value; it
\* returns a mapping whenever the braces' substring is valid JSON, and an
\* array, number, string or boolean only as the value of the whole stripped
\* text, when no braces' substring of it is valid JSON
C9_MappingUnlessWholeText ==
    Called =>
        /\ pout.v.t \in {"null", "obj", "arr", "num", "str", "bool"}
        /\ BraceValues(Stripped) # {} => pout.v.t = "obj"
        /\ pout.v.t \notin {"null", "obj"} =>
              /\ BraceValues(Stripped) = {}
              /\ JsonLoads(Stripped).ok
              /\ JsonLoads(Stripped).v = pout.v

C9_Witness ==
    /\ Called
    /\ ptext = JStr(<<"[", "1", "]">>)
    /\ pout.v = JArr(<<JNum(<<"1">>)>>)

=============================================================================
